---- MODULE Spec2Model ----
(***************************************************************************)
(* Model of iCount/mapping/xlsites.py: extraction of random barcodes,      *)
(* grouping of aligned reads by (chromosome, strand) / cross-link position *)
(* / barcode, merging of similar barcodes and collapsing of each group     *)
(* into cDNA and read counts.                                              *)
(*                                                                         *)
(* Python strings are sequences of one-character strings, compared by code *)
(* point as Python compares them.  Python's float weights are modelled in  *)
(* exact arithmetic as reduced fractions <<numerator, denominator>>.       *)
(* A Python dict is a TLA+ function; where the code iterates over a dict   *)
(* it only accumulates sums (commutative in exact arithmetic) or sorts the *)
(* keys by a total order first, so the iteration order is not modelled.    *)
(***************************************************************************)
EXTENDS Integers, Sequences, FiniteSets, TLC

VARIABLES
    pc,        \* position of the run: "read", "detect", "done", "error";
               \* "call" / "returned" / "again" for a single function call
    bam,       \* the records of the alignment stream read so far
    cfg,       \* arguments of run()
    metrics,   \* iCount.Metrics counters
    grouped,   \* (chrom, strand, xlink_pos) -> barcode -> sequence of hits
    strange,   \* reads reported as strange, in order
    unique,    \* (chrom, strand) -> position -> <<cDNA, reads>>, multimax = 1
    multi,     \* the same with multimax = cfg.multimax
    arg,       \* arguments of the function under call
    ret        \* its return value

vars == <<pc, bam, cfg, metrics, grouped, strange, unique, multi, arg, ret>>

(***************************************************************************)
(* Bounds of the model.                                                    *)
(***************************************************************************)
MaxReads == 3        \* records of a run that is followed through quantification
MaxRecords == 2      \* records of a run over the full range of records
MaxBcLen == 3        \* length of the strings handed to _match
MaxMismatches == 1   \* largest mismatches argument of a single call
MaxKeys == 4         \* barcodes of a group handed to _merge_similar_randomers
MaxHitsPerKey == 2   \* hits of each of these barcodes
MaxHits == 3         \* hits of a group handed to _collapse

(***************************************************************************)
(* Strings.                                                                *)
(***************************************************************************)
NoValue == "none"

Min(a, b) == IF a <= b THEN a ELSE b
Max(a, b) == IF a >= b THEN a ELSE b

\* Code points of the characters that occur in the model.
Code(c) ==
    CASE c = "1" -> 49 [] c = ":" -> 58
      [] c = "A" -> 65 [] c = "C" -> 67 [] c = "G" -> 71 [] c = "N" -> 78
      [] c = "T" -> 84 [] c = "X" -> 88
      [] c = "a" -> 97 [] c = "b" -> 98 [] c = "c" -> 99 [] c = "n" -> 110
      [] c = "r" -> 114 [] c = "t" -> 116

\* str.upper() on one character.
UpperChar(c) ==
    CASE c = "a" -> "A" [] c = "b" -> "B" [] c = "c" -> "C" [] c = "n" -> "N"
      [] c = "r" -> "R" [] c = "t" -> "T" [] OTHER -> c

Upper(s) == [i \in 1..Len(s) |-> UpperChar(s[i])]

\* Python's s < t on strings: lexicographic by code point, a proper prefix first.
RECURSIVE StrLess(_, _)
StrLess(s, t) ==
    IF s = <<>> THEN t # <<>>
    ELSE IF t = <<>> THEN FALSE
    ELSE IF Code(Head(s)) # Code(Head(t)) THEN Code(Head(s)) < Code(Head(t))
    ELSE StrLess(Tail(s), Tail(t))

\* Strings of length at most n over the alphabet S.
StringsUpTo(S, n) == UNION {[1..k -> S] : k \in 0..n}

VALID_NUCLEOTIDES == {"A", "T", "C", "G", "N"}

(***************************************************************************)
(* _match                                                                  *)
(***************************************************************************)
\* The comparison of the two upper-cased strings.
MatchUpper(u1, u2, mismatches) ==
    Max(Len(u1), Len(u2))
      - Cardinality({i \in 1..Min(Len(u1), Len(u2)) :
                        u1[i] = "N" \/ u2[i] = "N" \/ u1[i] = u2[i]})
    <= mismatches

\* A variant that counts the matches against the shorter length.
MatchShorterLength(s1, s2, mismatches) ==
    MatchUpper(SubSeq(Upper(s1), 1, Min(Len(s1), Len(s2))),
               SubSeq(Upper(s2), 1, Min(Len(s1), Len(s2))), mismatches)

_match(s1, s2, mismatches) == MatchUpper(Upper(s1), Upper(s2), mismatches)

(***************************************************************************)
(* _get_random_barcode                                                     *)
(***************************************************************************)
IsAt(s, i, pat) ==
    /\ i >= 1
    /\ i + Len(pat) - 1 <= Len(s)
    /\ \A k \in 1..Len(pat) : s[i + k - 1] = pat[k]

Occurrences(s, pat) == {i \in 1..Len(s) : IsAt(s, i, pat)}

\* pat in s
Contains(s, pat) == Occurrences(s, pat) # {}

SetMax(S) == CHOOSE x \in S : \A y \in S : y <= x
SetMin(S) == CHOOSE x \in S : \A y \in S : x <= y

\* s.rsplit(pat, 1)[1], for pat in s: what follows the last occurrence of pat.
AfterLast(s, pat) ==
    SubSeq(s, SetMax(Occurrences(s, pat)) + Len(pat), Len(s))

\* s.split(pat)[0]: what precedes the first occurrence of pat, or all of s.
BeforeFirst(s, pat) ==
    IF Contains(s, pat) THEN SubSeq(s, 1, SetMin(Occurrences(s, pat)) - 1) ELSE s

CharsOf(s) == {s[i] : i \in 1..Len(s)}

RbcMarker == <<":", "r", "b", "c", ":">>
Colon == <<":">>

\* The fallback branch for the token bc after the last ':'.
TrailingToken(bc, m) ==
    IF CharsOf(bc) \ VALID_NUCLEOTIDES # {}
    THEN [bc |-> <<>>, metrics |-> [m EXCEPT !.invalidrandomer_recs = @ + 1]]
    ELSE [bc |-> bc, metrics |-> m]

\* Returns the barcode and the metrics as the call leaves them.
_get_random_barcode(query_name, m) ==
    IF Contains(query_name, RbcMarker)
    THEN [bc |-> BeforeFirst(AfterLast(query_name, RbcMarker), Colon),
          metrics |-> m]
    ELSE IF Contains(query_name, Colon)
    THEN TrailingToken(AfterLast(query_name, Colon), m)
    ELSE [bc |-> <<>>, metrics |-> [m EXCEPT !.norandomer_recs = @ + 1]]

(***************************************************************************)
(* Exact arithmetic for the cDNA weights.                                  *)
(***************************************************************************)
RECURSIVE GCD(_, _)
GCD(a, b) == IF b = 0 THEN a ELSE GCD(b, a % b)

\* n / d for n >= 0 and d > 0, in lowest terms.
Frac(n, d) == LET g == GCD(n, d) IN <<n \div g, d \div g>>

RZero == <<0, 1>>
ROne == <<1, 1>>
RAdd(x, y) == Frac(x[1] * y[2] + y[1] * x[2], x[2] * y[2])
RInt(n) == <<n, 1>>

(***************************************************************************)
(* Hits: <<middle_pos, end_pos, read_len, num_mapped, second_start>>.       *)
(***************************************************************************)
MiddlePos(h) == h[1]
EndPos(h) == h[2]
ReadLen(h) == h[3]
NumMapped(h) == h[4]
SecondStartOf(h) == h[5]

(***************************************************************************)
(* _merge_similar_randomers                                                *)
(***************************************************************************)
\* barcode.count('N')
CountN(bc) == Cardinality({i \in 1..Len(bc) : bc[i] = "N"})

\* A variant that ranks the barcodes with the fewest hits first.
RankedBeforeAscending(by_bc, bc1, bc2) ==
    \/ Len(by_bc[bc1]) < Len(by_bc[bc2])
    \/ Len(by_bc[bc1]) = Len(by_bc[bc2]) /\ StrLess(bc1, bc2)

\* (len(hits1), bc1) > (len(hits2), bc2) as Python compares tuples.
RankedBefore(by_bc, bc1, bc2) ==
    \/ Len(by_bc[bc1]) > Len(by_bc[bc2])
    \/ Len(by_bc[bc1]) = Len(by_bc[bc2]) /\ StrLess(bc2, bc1)

\* sorted([(len(hits), bc) for bc in S], reverse=True), the barcodes only.
RECURSIVE OrderBcs(_, _)
OrderBcs(by_bc, S) ==
    IF S = {} THEN <<>>
    ELSE LET m == CHOOSE x \in S : \A y \in S \ {x} : RankedBefore(by_bc, x, y)
         IN  <<m>> \o OrderBcs(by_bc, S \ {m})

\* sorted(ambig_bcs), the barcodes only: ascending by (Ns, barcode).
RECURSIVE SortedAmbig(_)
SortedAmbig(S) ==
    IF S = {} THEN <<>>
    ELSE LET m == CHOOSE x \in S : \A y \in S \ {x} :
                      \/ CountN(x) < CountN(y)
                      \/ CountN(x) = CountN(y) /\ StrLess(x, y)
         IN  <<m>> \o SortedAmbig(S \ {m})

\* A variant that puts the hits of bc2 before those of bc.
MergeIntoFront(by_bc, bc, bc2) ==
    [k \in DOMAIN by_bc \ {bc2} |->
        IF k = bc THEN by_bc[bc2] \o by_bc[bc] ELSE by_bc[k]]

\* by_bc[bc].extend(by_bc.pop(bc2))
MergeInto(by_bc, bc, bc2) ==
    [k \in DOMAIN by_bc \ {bc2} |->
        IF k = bc THEN by_bc[bc] \o by_bc[bc2] ELSE by_bc[k]]

\* Index of the first barcode of order_bcs that matches amb_bc, 0 if there is
\* none.
FirstMatch(order_bcs, amb_bc, mismatches) ==
    IF \A i \in DOMAIN order_bcs : ~_match(order_bcs[i], amb_bc, mismatches)
    THEN 0
    ELSE SetMin({i \in DOMAIN order_bcs :
                    _match(order_bcs[i], amb_bc, mismatches)})

\* Step 1, for the ambiguous barcodes ambs still to be handled.
RECURSIVE Phase1(_, _, _, _)

\* The inner loop of step 1 for amb_bc: the first match in order_bcs takes its
\* hits, and without a match amb_bc is accepted as it is.
Phase1Assign(by_bc, accepted_bcs, ambs, mismatches, order_bcs, found) ==
    IF found # 0
    THEN Phase1(MergeInto(by_bc, order_bcs[found], Head(ambs)), accepted_bcs,
                Tail(ambs), mismatches)
    ELSE Phase1(by_bc, accepted_bcs \cup {Head(ambs)}, Tail(ambs), mismatches)

Phase1Find(by_bc, accepted_bcs, ambs, mismatches, order_bcs) ==
    Phase1Assign(by_bc, accepted_bcs, ambs, mismatches, order_bcs,
                 FirstMatch(order_bcs, Head(ambs), mismatches))

Phase1(by_bc, accepted_bcs, ambs, mismatches) ==
    IF ambs = <<>> THEN by_bc
    ELSE Phase1Find(by_bc, accepted_bcs, ambs, mismatches,
                    OrderBcs(by_bc, accepted_bcs \cap DOMAIN by_bc))

\* The inner loop of step 2 for one bc: every later bc2 that matches is merged.
RECURSIVE MergeLater(_, _, _, _)
MergeLater(by_bc, bc, later, mismatches) ==
    IF later = <<>> THEN by_bc
    ELSE IF _match(bc, Head(later), mismatches)
         THEN MergeLater(MergeInto(by_bc, bc, Head(later)), bc, Tail(later),
                         mismatches)
         ELSE MergeLater(by_bc, bc, Tail(later), mismatches)

\* One pass of the while loop of step 2 from position i of order_bcs on: the
\* first bc that has a later match takes the hits of all its later matches,
\* and the pass ends.
RECURSIVE Phase2Scan(_, _, _, _)
Phase2Scan(by_bc, order_bcs, i, mismatches) ==
    IF i >= Len(order_bcs) THEN by_bc
    ELSE IF \E j \in (i + 1)..Len(order_bcs) :
                _match(order_bcs[i], order_bcs[j], mismatches)
         THEN MergeLater(by_bc, order_bcs[i],
                         SubSeq(order_bcs, i + 1, Len(order_bcs)), mismatches)
         ELSE Phase2Scan(by_bc, order_bcs, i + 1, mismatches)

Phase2Pass(by_bc, mismatches) ==
    Phase2Scan(by_bc, OrderBcs(by_bc, DOMAIN by_bc), 1, mismatches)

\* A variant that makes one pass only.
Phase2SinglePass(by_bc, mismatches) == Phase2Pass(by_bc, mismatches)

\* while merged: ...
RECURSIVE Phase2(_, _)

\* The loop goes on as long as the pass merged something.
Phase2Loop(by_bc, next, mismatches) ==
    IF DOMAIN next = DOMAIN by_bc THEN by_bc ELSE Phase2(next, mismatches)

Phase2(by_bc, mismatches) ==
    Phase2Loop(by_bc, Phase2Pass(by_bc, mismatches), mismatches)

\* The barcodes without 'N' of the group.
Unambiguous(by_bc) == {bc \in DOMAIN by_bc : CountN(bc) = 0}

\* Step 1.
MergeStep1(by_bc, mismatches) ==
    Phase1(by_bc, Unambiguous(by_bc),
           SortedAmbig(DOMAIN by_bc \ Unambiguous(by_bc)), mismatches)

\* The barcode group as the call leaves it (the code changes by_bc in place).
_merge_similar_randomers(by_bc, mismatches) ==
    Phase2(MergeStep1(by_bc, mismatches), mismatches)

(***************************************************************************)
(* Python dicts as functions.                                              *)
(***************************************************************************)
EmptyDict == <<>>

Put(d, k, v) == [x \in DOMAIN d \cup {k} |-> IF x = k THEN v ELSE d[x]]

\* d.get(k, default)
Get(d, k, default) == IF k \in DOMAIN d THEN d[k] ELSE default

(***************************************************************************)
(* _update and _collapse                                                   *)
(***************************************************************************)
\* cur_vals after _update(cur_vals, to_add); values are <<cDNA, reads>>.
_update(cur_vals, to_add) ==
    [pos \in DOMAIN cur_vals \cup DOMAIN to_add |->
        IF pos \in DOMAIN to_add
        THEN LET prev_vals == Get(cur_vals, pos, <<RZero, 0>>)
             IN  <<RAdd(prev_vals[1], to_add[pos][1]),
                   prev_vals[2] + to_add[pos][2]>>
        ELSE cur_vals[pos]]

GroupBys == <<"start", "middle", "end">>

\* ['start', 'middle', 'end'].index(group_by), from 1
GroupIndex(group_by) == CHOOSE i \in 1..3 : GroupBys[i] = group_by

\* A variant that sums the read lengths of all hits of the sub-group.
RECURSIVE SumLenAllHits(_, _)
SumLenAllHits(ss_group, multimax) ==
    IF ss_group = <<>> THEN 0
    ELSE ReadLen(Head(ss_group)) + SumLenAllHits(Tail(ss_group), multimax)

\* sum([i[2] for i in ss_group if i[3] <= multimax])
RECURSIVE SumLen(_, _)
SumLen(ss_group, multimax) ==
    IF ss_group = <<>> THEN 0
    ELSE (IF NumMapped(Head(ss_group)) <= multimax
          THEN ReadLen(Head(ss_group)) ELSE 0)
         + SumLen(Tail(ss_group), multimax)

\* A variant that leaves out the division by the number of mapped places.
WeightIgnoringMultiplicity(hit, sum_len_per_barcode) ==
    Frac(ReadLen(hit), sum_len_per_barcode)

\* A variant that counts every read as a cDNA of its own.
WeightPerRead(hit, sum_len_per_barcode) == Frac(1, NumMapped(hit))

\* w of one hit that passes the cutoff.
Weight(hit, sum_len_per_barcode) ==
    Frac(ReadLen(hit), NumMapped(hit) * sum_len_per_barcode)

\* The inner loop over the hits `rest` of one sub-group, adding to counts.
RECURSIVE CollapseHits(_, _, _, _, _, _)
CollapseHits(counts, xlink_pos, rest, sum_len_per_barcode, gi, multimax) ==
    IF rest = <<>> THEN counts
    ELSE LET hit == Head(rest)
         IN  IF NumMapped(hit) > multimax
             THEN CollapseHits(counts, xlink_pos, Tail(rest),
                               sum_len_per_barcode, gi, multimax)
             ELSE LET grp_pos == <<xlink_pos, MiddlePos(hit), EndPos(hit)>>[gi]
                      w == Weight(hit, sum_len_per_barcode)
                      current_values == Get(counts, grp_pos, <<RZero, 0>>)
                      upadated_values == <<RAdd(current_values[1], w),
                                           current_values[2] + 1>>
                  IN  CollapseHits(Put(counts, grp_pos, upadated_values),
                                   xlink_pos, Tail(rest), sum_len_per_barcode,
                                   gi, multimax)

\* The hits of `hits` with second-start ss, in order.
SsGroup(hits, ss) == SelectSeq(hits, LAMBDA h : SecondStartOf(h) = ss)

SecondStarts(hits) == {SecondStartOf(hits[i]) : i \in 1..Len(hits)}

\* counts after one second-start sub-group.
CollapseSsGroup(counts, xlink_pos, ss_group, gi, multimax) ==
    CollapseHits(counts, xlink_pos, ss_group,
                 SumLen(ss_group, multimax), gi, multimax)

\* The loop over the sub-groups `sss` of one barcode.
RECURSIVE CollapseBarcode(_, _, _, _, _, _)
CollapseBarcode(counts, xlink_pos, hits, sss, gi, multimax) ==
    IF sss = {} THEN counts
    ELSE LET ss == CHOOSE x \in sss : TRUE
         IN  CollapseBarcode(
                 CollapseSsGroup(counts, xlink_pos, SsGroup(hits, ss), gi,
                                 multimax),
                 xlink_pos, hits, sss \ {ss}, gi, multimax)

\* The loop over the barcodes `bcs` of the group.
RECURSIVE CollapseBarcodes(_, _, _, _, _, _)
CollapseBarcodes(counts, xlink_pos, by_bc, bcs, gi, multimax) ==
    IF bcs = {} THEN counts
    ELSE LET bc == CHOOSE x \in bcs : TRUE
         IN  CollapseBarcodes(
                 CollapseBarcode(counts, xlink_pos, by_bc[bc],
                                 SecondStarts(by_bc[bc]), gi, multimax),
                 xlink_pos, by_bc, bcs \ {bc}, gi, multimax)

_collapse(xlink_pos, by_bc, group_by, multimax) ==
    CollapseBarcodes(EmptyDict, xlink_pos, by_bc, DOMAIN by_bc,
                     GroupIndex(group_by), multimax)

(***************************************************************************)
(* _intersects_with_annotaton and _second_start                            *)
(*                                                                         *)
(* The prepared annotation is a set of segments [chrom, strand,            *)
(* transcript, start, stop]; the empty set stands for "no segmentation"    *)
(* (`not annotation`).  Every (chrom, strand) of a read is taken to be a   *)
(* key of the prepared annotation.                                         *)
(***************************************************************************)
_intersects_with_annotaton(second_start, annotation, chrom, strand) ==
    \E segment \in annotation :
        /\ segment.chrom = chrom
        /\ segment.strand = strand
        /\ segment.transcript # "gene_segment"
        /\ IF strand = "+" THEN second_start = segment.start
                           ELSE second_start = segment.stop

\* holes = [j-i-1 for i, j in zip(poss, poss[1:])]
Holes(poss) == [k \in 1..(Len(poss) - 1) |-> poss[k + 1] - poss[k] - 1]

\* max(holes) if holes else 0
BiggestHoleSize(poss) ==
    IF Len(poss) <= 1 THEN 0
    ELSE SetMax({Holes(poss)[k] : k \in 1..(Len(poss) - 1)})

\* The branch with a segmentation: holes.index(...) raises on a read of one
\* position; otherwise the border of the first biggest hole is looked up.
SecondStartAnnotated(read, poss, strange_, strand, chrom, annotation, holes, biggest_hole_size) ==
    IF \A k \in DOMAIN holes : holes[k] # biggest_hole_size
    THEN [raised |-> TRUE, second_start |-> 0, strange |-> strange_]
    ELSE LET biggest_hole_size_index ==
                 SetMin({k \in DOMAIN holes : holes[k] = biggest_hole_size})
             second_start == IF strand = "+"
                             THEN poss[biggest_hole_size_index + 1]
                             ELSE poss[biggest_hole_size_index]
         IN  IF ~_intersects_with_annotaton(second_start, annotation,
                                            chrom, strand)
             THEN [raised |-> FALSE, second_start |-> 0,
                   strange |-> Append(strange_, read)]
             ELSE [raised |-> FALSE, second_start |-> second_start,
                   strange |-> strange_]

\* A variant that reports a read as strange from a hole of holesize_th on.
SecondStartStrangeFromThreshold(read, poss, strange_, strand, chrom, annotation, holesize_th) ==
    IF annotation = {}
    THEN [raised |-> FALSE,
          second_start |-> 0,
          strange |-> IF BiggestHoleSize(poss) >= holesize_th
                      THEN Append(strange_, read) ELSE strange_]
    ELSE SecondStartAnnotated(read, poss, strange_, strand, chrom, annotation,
                              Holes(poss), BiggestHoleSize(poss))

\* The result of the call: whether it raised (holes.index on an empty list),
\* the value returned and the strange list as the call leaves it.
_second_start(read, poss, strange_, strand, chrom, annotation, holesize_th) ==
    IF annotation = {}
    THEN [raised |-> FALSE,
          second_start |-> 0,
          strange |-> IF BiggestHoleSize(poss) > holesize_th
                      THEN Append(strange_, read) ELSE strange_]
    ELSE SecondStartAnnotated(read, poss, strange_, strand, chrom, annotation,
                              Holes(poss), BiggestHoleSize(poss))

(***************************************************************************)
(* _processs_bam_file: one iteration of the loop over the records.         *)
(*                                                                         *)
(* A record is [is_unmapped, mapq, NH, query_name, positions, is_reverse,  *)
(* seq_len, chrom]; NH = 0 stands for a record without the NH tag, and     *)
(* positions are ascending, as the alignment library reports them.         *)
(* The loop state is [pc, metrics, grouped, strange].                      *)
(***************************************************************************)
InitMetrics ==
    [all_recs |-> 0, notmapped_recs |-> 0, mapped_recs |-> 0,
     lowmapq_recs |-> 0, used_recs |-> 0, invalidrandomer_recs |-> 0,
     norandomer_recs |-> 0, bc_cn |-> EmptyDict]

InitLoop ==
    [pc |-> "read", metrics |-> InitMetrics, grouped |-> EmptyDict,
     strange |-> <<>>]

\* r.has_tag('NH')
HasTagNH(r) == r.NH # 0

\* Index (from 1) of the middle nucleotide in the sorted positions.
MiddleIndex(n, strand) ==
    IF n % 2 = 0
    THEN (IF strand = "-" THEN (n \div 2) - 1 ELSE n \div 2) + 1
    ELSE (n \div 2) + 1

\* A variant that keeps the last hit of a barcode only.
StoreOverwrite(grouped_, chrom, strand, xlink_pos, bc, read_data) ==
    Put(grouped_, <<chrom, strand>>,
        Put(Get(grouped_, <<chrom, strand>>, EmptyDict), xlink_pos,
            Put(Get(Get(grouped_, <<chrom, strand>>, EmptyDict), xlink_pos,
                    EmptyDict),
                bc, <<read_data>>)))

\* grouped.setdefault((chrom, strand), {}).setdefault(xlink_pos, {})
\*        .setdefault(bc, []).append(read_data)
Store(grouped_, chrom, strand, xlink_pos, bc, read_data) ==
    LET by_pos == Get(grouped_, <<chrom, strand>>, EmptyDict)
        by_bc == Get(by_pos, xlink_pos, EmptyDict)
        hits == Get(by_bc, bc, <<>>)
    IN  Put(grouped_, <<chrom, strand>>,
            Put(by_pos, xlink_pos, Put(by_bc, bc, Append(hits, read_data))))

Strand(r) == IF r.is_reverse THEN "-" ELSE "+"

\* Position of the cross-link: one nucleotide before the start of the read.
XlinkPos(r) ==
    IF r.is_reverse THEN r.positions[Len(r.positions)] + 1
                    ELSE r.positions[1] - 1

EndPosOf(r) ==
    IF r.is_reverse THEN r.positions[1] ELSE r.positions[Len(r.positions)]

\* The end of the loop body: ss is the result of _second_start, m the metrics.
StoreHit(st, r, bc, m, ss) ==
    IF ss.raised
    THEN [st EXCEPT !.pc = "error", !.metrics = m]
    ELSE [pc |-> "read",
          metrics |-> m,
          grouped |-> Store(st.grouped, r.chrom, Strand(r), XlinkPos(r), bc,
                            <<r.positions[MiddleIndex(Len(r.positions),
                                                      Strand(r))],
                              EndPosOf(r), r.seq_len, r.NH, ss.second_start>>),
          strange |-> ss.strange]

\* The loop body from the barcode counter on: got is the result of
\* _get_random_barcode.
CountBarcode(st, r, c, got) ==
    StoreHit(st, r, got.bc,
             [got.metrics EXCEPT !.bc_cn = Put(@, got.bc, Get(@, got.bc, 0) + 1)],
             _second_start(r, r.positions, st.strange, Strand(r), r.chrom,
                           c.annotation, c.holesize_th))

\* The part of the loop body after `metrics.used_recs += 1`.
UsedRecord(st, r, c, m) ==
    IF ~HasTagNH(r)
    THEN [st EXCEPT !.pc = "error", !.metrics = m]
    ELSE CountBarcode(st, r, c, _get_random_barcode(r.query_name, m))

\* A variant that asks for the NH tag of every record, before the filters.
ProcessRecordNHFirst(st, r, c) ==
    IF ~HasTagNH(r)
    THEN [st EXCEPT !.pc = "error",
                    !.metrics = [@ EXCEPT !.all_recs = @ + 1]]
    ELSE IF r.is_unmapped
    THEN [st EXCEPT !.metrics = [@ EXCEPT !.all_recs = @ + 1,
                                          !.notmapped_recs = @ + 1]]
    ELSE IF r.mapq < c.mapq_th
    THEN [st EXCEPT !.metrics = [@ EXCEPT !.all_recs = @ + 1,
                                          !.mapped_recs = @ + 1,
                                          !.lowmapq_recs = @ + 1]]
    ELSE UsedRecord(st, r, c, [st.metrics EXCEPT !.all_recs = @ + 1,
                                                 !.mapped_recs = @ + 1,
                                                 !.used_recs = @ + 1])

\* The loop state after the iteration for record r.
ProcessRecord(st, r, c) ==
    IF r.is_unmapped
    THEN [st EXCEPT !.metrics = [@ EXCEPT !.all_recs = @ + 1,
                                          !.notmapped_recs = @ + 1]]
    ELSE IF r.mapq < c.mapq_th
    THEN [st EXCEPT !.metrics = [@ EXCEPT !.all_recs = @ + 1,
                                          !.mapped_recs = @ + 1,
                                          !.lowmapq_recs = @ + 1]]
    ELSE UsedRecord(st, r, c, [st.metrics EXCEPT !.all_recs = @ + 1,
                                                 !.mapped_recs = @ + 1,
                                                 !.used_recs = @ + 1])

\* After the loop: metrics.strange_recs = len(strange).
CloseBam(st) ==
    [st EXCEPT !.pc = "detect",
               !.metrics = @ @@ [strange_recs |-> Len(st.strange)]]

(***************************************************************************)
(* run: the loop over the (chrom, strand) groups and their positions.      *)
(***************************************************************************)
\* The loop over the positions `xs` of one (chrom, strand) group; acc is
\* [by_pos, unique_by_pos, multi_by_pos].
RECURSIVE DetectPositions(_, _, _)

\* The loop body for xlink_pos, by_bc being the group after the merge.
DetectPosition(acc, xs, c, xlink_pos, by_bc) ==
    DetectPositions(
        [by_pos |-> Put(acc.by_pos, xlink_pos, by_bc),
         unique_by_pos |->
             _update(acc.unique_by_pos,
                     _collapse(xlink_pos, by_bc, c.group_by, 1)),
         multi_by_pos |->
             _update(acc.multi_by_pos,
                     _collapse(xlink_pos, by_bc, c.group_by, c.multimax))],
        xs \ {xlink_pos}, c)

DetectNext(acc, xs, c, xlink_pos) ==
    DetectPosition(acc, xs, c, xlink_pos,
                   _merge_similar_randomers(acc.by_pos[xlink_pos],
                                            c.mismatches))

DetectPositions(acc, xs, c) ==
    IF xs = {} THEN acc
    ELSE DetectNext(acc, xs, c, CHOOSE x \in xs : TRUE)

DetectChromStrand(by_pos, c) ==
    DetectPositions([by_pos |-> by_pos, unique_by_pos |-> EmptyDict,
                     multi_by_pos |-> EmptyDict], DOMAIN by_pos, c)

\* The three dicts out of the per-group results.
Results(res) ==
    [grouped |-> [cs \in DOMAIN res |-> res[cs].by_pos],
     unique |-> [cs \in DOMAIN res |-> res[cs].unique_by_pos],
     multi |-> [cs \in DOMAIN res |-> res[cs].multi_by_pos]]

\* grouped (merged in place), unique and multi after the loop.
DetectCrossLinks(grouped_, c) ==
    Results([cs \in DOMAIN grouped_ |-> DetectChromStrand(grouped_[cs], c)])

\* The loop of _processs_bam_file over the records recs, from the state st.
RECURSIVE ReadAll(_, _, _)
ReadAll(st, recs, c) ==
    IF recs = <<>> \/ st.pc = "error" THEN st
    ELSE ReadAll(ProcessRecord(st, Head(recs), c), Tail(recs), c)

\* The number of times each element occurs in seq.
BagOf(seq) ==
    [x \in {seq[i] : i \in DOMAIN seq} |->
        Cardinality({i \in DOMAIN seq : seq[i] = x})]

\* What run() leaves behind: the two tables, the strange reads and the
\* metrics, or the fact that it raised.
Outcome(raised, unique_, multi_, strange_, metrics_) ==
    IF raised THEN [raised |-> TRUE]
    ELSE [raised |-> FALSE, unique |-> unique_, multi |-> multi_,
          strange |-> BagOf(strange_), metrics |-> metrics_]

RunDetected(st, res) ==
    Outcome(FALSE, res.unique, res.multi, st.strange, st.metrics)

RunClosed(st, c) == RunDetected(st, DetectCrossLinks(st.grouped, c))

RunRead(st, c) ==
    IF st.pc = "error" THEN Outcome(TRUE, EmptyDict, EmptyDict, <<>>, NoValue)
    ELSE RunClosed(CloseBam(st), c)

\* run() on the records recs under the arguments c.
Run(recs, c) == RunRead(ReadAll(InitLoop, recs, c), c)

(***************************************************************************)
(* Inputs.                                                                 *)
(***************************************************************************)
SeqsUpTo(S, n) == UNION {[1..k -> S] : k \in 0..n}

Chrom == "chr1"

\* A prepared segmentation: two transcripts and the synthetic gene entry.
Annotation ==
    {[chrom |-> Chrom, strand |-> "+", transcript |-> "T1", start |-> 6, stop |-> 9],
     [chrom |-> Chrom, strand |-> "+", transcript |-> "T1", start |-> 12, stop |-> 20],
     [chrom |-> Chrom, strand |-> "-", transcript |-> "T2", start |-> 1, stop |-> 5],
     [chrom |-> Chrom, strand |-> "+", transcript |-> "gene_segment", start |-> 11, stop |-> 20]}

Annotations == {{}, Annotation}

Rec(unmapped, mapq, nh, name, poss, reverse, seq_len) ==
    [is_unmapped |-> unmapped, mapq |-> mapq, NH |-> nh, query_name |-> name,
     positions |-> poss, is_reverse |-> reverse, seq_len |-> seq_len,
     chrom |-> Chrom]

NameNoColon == <<"r">>
NameTrailingAT == <<"r", ":", "A", "T">>
NameTrailingAX == <<"r", ":", "A", "X">>
NameTrailingLower == <<"r", ":", "a", "t">>
NameRbcAT == <<"r", ":", "r", "b", "c", ":", "A", "T">>
NameRbcAN == <<"r", ":", "r", "b", "c", ":", "A", "N">>
NameRbcTT == <<"r", ":", "r", "b", "c", ":", "T", "T">>
NameRbcAX == <<"r", ":", "r", "b", "c", ":", "A", "X", ":", "1">>

\* The records of the runs that are followed through quantification: reads of
\* one cross-link position with three barcodes and two read lengths, a
\* multi-mapped read, a spliced read, a read of the other strand and a read
\* without NH.
Reads ==
    {Rec(FALSE, 255, 1, NameRbcAT, <<5, 6>>, FALSE, 1),
     Rec(FALSE, 255, 1, NameRbcAT, <<5, 6>>, FALSE, 2),
     Rec(FALSE, 255, 1, NameRbcTT, <<5, 6>>, FALSE, 2),
     Rec(FALSE, 255, 1, NameRbcAN, <<5, 6>>, FALSE, 1),
     Rec(FALSE, 255, 2, NameRbcAT, <<5, 6>>, FALSE, 2),
     Rec(FALSE, 255, 1, NameRbcAT, <<5, 6, 12, 13>>, FALSE, 4),
     Rec(FALSE, 255, 1, NameRbcAT, <<2, 3, 4>>, TRUE, 3),
     Rec(FALSE, 255, 0, NameRbcAT, <<5, 6>>, FALSE, 2)}

\* The arguments of run() that _processs_bam_file reads.
ReadConfigs == [mapq_th : {2}, annotation : Annotations, holesize_th : {4}]

\* The arguments of run() that only the detection loop reads; they are drawn
\* when the loop starts.
DetectConfigs ==
    [mismatches : {0, 1}, group_by : {"start", "middle", "end"},
     multimax : {50}]

\* The defaults of run().
DefaultDetectConfigs == [mismatches : {2}, group_by : {"start"}, multimax : {50}]

\* The records of the runs over the full range of records: records that the
\* filters drop, with and without NH; used reads of every shape (one position,
\* contiguous, holes up to and above holesize_th, either strand); used reads
\* of every naming convention, with and without NH.
FilteredRecords ==
    {Rec(unmapped, 0, nh, NameRbcAT, <<5, 6>>, FALSE, 2) :
        unmapped \in BOOLEAN, nh \in {0, 1}}

Shapes ==
    {<<FALSE, <<5>>>>, <<TRUE, <<5>>>>, <<FALSE, <<5, 6>>>>, <<TRUE, <<4, 5, 6>>>>,
     <<FALSE, <<5, 6, 11>>>>, <<FALSE, <<5, 6, 12, 13>>>>,
     <<TRUE, <<5, 11, 12>>>>, <<FALSE, <<5, 8, 9, 12>>>>}

ShapedRecords ==
    {Rec(FALSE, 255, 1, NameRbcAT, shape[2], shape[1], Len(shape[2])) :
        shape \in Shapes}

Names ==
    {NameNoColon, NameTrailingAT, NameTrailingAX, NameTrailingLower,
     NameRbcAT, NameRbcAN, NameRbcAX}

NamedRecords ==
    {Rec(FALSE, 255, nh, name, <<5, 6>>, FALSE, 2) :
        name \in Names, nh \in {0, 1, 3}}

Records == FilteredRecords \cup ShapedRecords \cup NamedRecords

(***************************************************************************)
(* The run as a state machine.  bam holds the records read so far.         *)
(***************************************************************************)
Idle ==
    /\ bam = <<>>
    /\ cfg = NoValue
    /\ metrics = NoValue
    /\ grouped = EmptyDict
    /\ strange = <<>>
    /\ unique = EmptyDict
    /\ multi = EmptyDict

Init ==
    /\ pc = "read"
    /\ bam = <<>>
    /\ cfg \in ReadConfigs
    /\ metrics = InitMetrics
    /\ grouped = EmptyDict
    /\ strange = <<>>
    /\ unique = EmptyDict
    /\ multi = EmptyDict
    /\ arg = NoValue
    /\ ret = NoValue

Loop == [pc |-> pc, metrics |-> metrics, grouped |-> grouped, strange |-> strange]

\* The loop state st becomes the state of the run.
Becomes(st) ==
    /\ pc' = st.pc
    /\ metrics' = st.metrics
    /\ grouped' = st.grouped
    /\ strange' = st.strange

\* for r in bamfile: the next record r of the stream.
ReadRecord(r) ==
    /\ pc = "read"
    /\ Becomes(ProcessRecord(Loop, r, cfg))
    /\ bam' = Append(bam, r)
    /\ UNCHANGED <<cfg, unique, multi, arg, ret>>

\* The stream is exhausted: the strange reads are written and counted.
EndOfFile ==
    /\ pc = "read"
    /\ Becomes(CloseBam(Loop))
    /\ UNCHANGED <<bam, cfg, unique, multi, arg, ret>>

\* The detection loop has run under the arguments c with the result res.
Detected(c, res) ==
    /\ cfg' = c
    /\ grouped' = res.grouped
    /\ unique' = res.unique
    /\ multi' = res.multi

\* Detecting cross-links: merge and collapse every group.
Detect(configs) ==
    /\ pc = "detect"
    /\ \E d \in configs :
          Detected(cfg @@ d, DetectCrossLinks(grouped, cfg @@ d))
    /\ pc' = "done"
    /\ UNCHANGED <<bam, metrics, strange, arg, ret>>

ReadNext == \E r \in Reads : Len(bam) < MaxReads /\ ReadRecord(r)

DetectRun == Detect(DetectConfigs)

Next == ReadNext \/ EndOfFile \/ DetectRun

Spec == Init /\ [][Next]_vars

\* Runs over the full range of records, detected under the defaults of run().
ReadNextRecord == \E r \in Records : Len(bam) < MaxRecords /\ ReadRecord(r)

DetectDefault == Detect(DefaultDetectConfigs)

NextRecords == ReadNextRecord \/ EndOfFile \/ DetectDefault

SpecRecords == Init /\ [][NextRecords]_vars

(***************************************************************************)
(* Single calls of _match, _merge_similar_randomers and _collapse.         *)
(***************************************************************************)
InitCall(args) ==
    /\ pc = "call"
    /\ arg \in args
    /\ ret = NoValue
    /\ Idle

IdleUnchanged == UNCHANGED <<bam, cfg, metrics, grouped, strange, unique, multi>>

MatchArgs(max_len, max_mismatches) ==
    [s1 : StringsUpTo({"A", "T", "N", "a"}, max_len),
     s2 : StringsUpTo({"A", "T", "N", "a"}, max_len),
     mismatches : 0..max_mismatches]

CallMatch ==
    /\ pc = "call"
    /\ ret' = _match(arg.s1, arg.s2, arg.mismatches)
    /\ pc' = "returned"
    /\ UNCHANGED arg
    /\ IdleUnchanged

SpecMatch == InitCall(MatchArgs(MaxBcLen, MaxMismatches)) /\ [][CallMatch]_vars

\* The barcodes of the groups handed to _merge_similar_randomers.
MergeBarcodes ==
    << <<"A", "A">>, <<"A", "T">>, <<"T", "T">>, <<"A", "N">>, <<"N", "T">>,
       <<"N", "N">>, <<"A", "n">>, <<"A">> >>

BarcodeIndex(bc) == CHOOSE i \in 1..Len(MergeBarcodes) : MergeBarcodes[i] = bc

\* n hits of barcode bc, told apart by their end positions.
HitsOf(bc, n) == [i \in 1..n |-> <<6, 10 * BarcodeIndex(bc) + i, 2, 1, 0>>]

\* The sets of at most max_keys barcodes.
KeySets(max_keys) ==
    {K \in SUBSET {MergeBarcodes[i] : i \in 1..Len(MergeBarcodes)} :
        Cardinality(K) \in 1..max_keys}

\* The groups of at most max_keys barcodes with at most max_hits hits each.
BarcodeGroups(max_keys, max_hits) ==
    UNION {{[bc \in K |-> HitsOf(bc, n[bc])] : n \in [K -> 1..max_hits]} :
              K \in KeySets(max_keys)}

\* by_bc is the group as the calls change it in place; before is the group as
\* the last call found it and original the group as it was drawn.
MergeArgs(max_keys, max_hits, max_mismatches) ==
    {[by_bc |-> g, mismatches |-> m, before |-> g, original |-> g] :
        g \in BarcodeGroups(max_keys, max_hits), m \in 0..max_mismatches}

\* The first call, and a second call on the group the first one left.
CallMerge ==
    /\ pc \in {"call", "returned"}
    /\ arg' = [arg EXCEPT
                  !.by_bc = _merge_similar_randomers(arg.by_bc, arg.mismatches),
                  !.before = arg.by_bc]
    /\ pc' = IF pc = "call" THEN "returned" ELSE "again"
    /\ UNCHANGED ret
    /\ IdleUnchanged

SpecMerge ==
    InitCall(MergeArgs(MaxKeys, MaxHitsPerKey, MaxMismatches)) /\ [][CallMerge]_vars

\* The groups handed to _collapse: up to MaxHits hits stored one by one under
\* two barcodes.
CollapseHitSet ==
    {<<6, 8, 1, 1, 0>>, <<7, 8, 2, 1, 0>>, <<6, 9, 2, 2, 0>>, <<7, 9, 1, 3, 0>>,
     <<6, 13, 2, 1, 12>>, <<7, 13, 1, 3, 12>>}

Entries == {<<"A", "A">>, <<"A", "T">>} \X CollapseHitSet

RECURSIVE GroupOf(_)
GroupOf(es) ==
    IF es = <<>> THEN EmptyDict
    ELSE LET g == GroupOf(SubSeq(es, 1, Len(es) - 1))
             e == es[Len(es)]
         IN  Put(g, e[1], Append(Get(g, e[1], <<>>), e[2]))

\* The groups of at most max_hits hits.
CollapseGroups(max_hits) ==
    {GroupOf(es) : es \in SeqsUpTo(Entries, max_hits) \ {<<>>}}

CollapseArgs(max_hits) ==
    [xlink_pos : {4}, by_bc : CollapseGroups(max_hits),
     group_by : {"start", "middle", "end"}, multimax : {1, 2, 50}]

CallCollapse ==
    /\ pc = "call"
    /\ ret' = _collapse(arg.xlink_pos, arg.by_bc, arg.group_by, arg.multimax)
    /\ pc' = "returned"
    /\ UNCHANGED arg
    /\ IdleUnchanged

SpecCollapse == InitCall(CollapseArgs(MaxHits)) /\ [][CallCollapse]_vars

(***************************************************************************)
(* _merge_similar_randomers step by step: one ambiguous barcode of step 1  *)
(* and one merge or one end of an inner loop of step 2 at a time.  arg     *)
(* holds the locals of the call; handled lists the ambiguous barcodes in   *)
(* the order step 1 took them, and last describes the last step: the       *)
(* barcode moved or accepted, the barcode that took its hits, and by_bc    *)
(* and accepted_bcs as the step found them.  by_bc.pop(k) of a barcode     *)
(* that is not a key raises KeyError: pc = "error".                        *)
(***************************************************************************)
NoStep == [kind |-> "none"]

\* The locals after the split into accepted and ambiguous barcodes.
MergeLocals(g, m) ==
    [by_bc |-> g, mismatches |-> m, original |-> g,
     accepted_bcs |-> Unambiguous(g),
     ambig_bcs |-> SortedAmbig(DOMAIN g \ Unambiguous(g)),
     order_bcs |-> <<>>, i |-> 0, j |-> 0, merged |-> TRUE,
     handled |-> <<>>, last |-> NoStep]

MergeStepArgs(max_keys, max_hits, max_mismatches) ==
    {MergeLocals(g, m) :
        g \in BarcodeGroups(max_keys, max_hits), m \in 0..max_mismatches}

InitMergeSteps ==
    /\ pc = "step1"
    /\ arg \in MergeStepArgs(MaxKeys, MaxHitsPerKey, MaxMismatches)
    /\ ret = NoValue
    /\ Idle

\* by_bc[bc].extend(by_bc.pop(bc2)) as a step: KeyError when a key is gone.
PopAndExtend(kind, bc, bc2, rest) ==
    IF bc2 \notin DOMAIN arg.by_bc \/ bc \notin DOMAIN arg.by_bc
    THEN /\ pc' = "error"
         /\ arg' = arg
    ELSE /\ pc' = pc
         /\ arg' = [rest EXCEPT
                       !.by_bc = MergeInto(arg.by_bc, bc, bc2),
                       !.last = [kind |-> kind, bc2 |-> bc2, into |-> bc,
                                 before |-> arg.by_bc,
                                 accepted |-> arg.accepted_bcs]]

\* The body of the loop of step 1 for amb_bc, found being the place of the
\* first match in order_bcs.
AssignOrAccept(amb_bc, order_bcs, found, rest) ==
    IF found # 0
    THEN PopAndExtend("assigned", order_bcs[found], amb_bc, rest)
    ELSE /\ pc' = pc
         /\ arg' = [rest EXCEPT
                       !.accepted_bcs = @ \cup {amb_bc},
                       !.last = [kind |-> "accepted", bc2 |-> amb_bc,
                                 into |-> NoValue, before |-> arg.by_bc,
                                 accepted |-> arg.accepted_bcs]]

AssignWith(amb_bc, order_bcs) ==
    AssignOrAccept(amb_bc, order_bcs,
                   FirstMatch(order_bcs, amb_bc, arg.mismatches),
                   [arg EXCEPT !.ambig_bcs = Tail(@),
                               !.handled = Append(@, amb_bc)])

\* for _, amb_bc in sorted(ambig_bcs): one iteration.
AssignAmbiguous ==
    /\ pc = "step1"
    /\ arg.ambig_bcs # <<>>
    /\ AssignWith(Head(arg.ambig_bcs),
                  OrderBcs(arg.by_bc, arg.accepted_bcs \cap DOMAIN arg.by_bc))
    /\ UNCHANGED ret
    /\ IdleUnchanged

\* The loop of step 1 is over: merged = True.
EndStep1 ==
    /\ pc = "step1"
    /\ arg.ambig_bcs = <<>>
    /\ pc' = "rank"
    /\ arg' = [arg EXCEPT !.merged = TRUE, !.last = NoStep]
    /\ UNCHANGED ret
    /\ IdleUnchanged

\* while merged: the barcodes are ranked again, or the call returns.
Rank ==
    /\ pc = "rank"
    /\ IF arg.merged
       THEN /\ pc' = "scan"
            /\ arg' = [arg EXCEPT
                          !.order_bcs = OrderBcs(arg.by_bc, DOMAIN arg.by_bc),
                          !.merged = FALSE, !.i = 1, !.j = 2,
                          !.last = [kind |-> "ranked"]]
       ELSE /\ pc' = "returned"
            /\ arg' = [arg EXCEPT !.last = NoStep]
    /\ UNCHANGED ret
    /\ IdleUnchanged

\* One iteration of the inner loop of step 2: order_bcs[j] against order_bcs[i].
Compare ==
    /\ pc = "scan"
    /\ arg.j <= Len(arg.order_bcs)
    /\ IF _match(arg.order_bcs[arg.i], arg.order_bcs[arg.j], arg.mismatches)
       THEN PopAndExtend("merged", arg.order_bcs[arg.i], arg.order_bcs[arg.j],
                         [arg EXCEPT !.merged = TRUE, !.j = @ + 1])
       ELSE /\ pc' = pc
            /\ arg' = [arg EXCEPT !.j = @ + 1, !.last = [kind |-> "compared"]]
    /\ UNCHANGED ret
    /\ IdleUnchanged

\* A variant without the break: the outer loop goes on to the next bc of the
\* ranking after a merge.
EndInnerLoopNoBreak ==
    /\ pc = "scan"
    /\ arg.j > Len(arg.order_bcs)
    /\ IF arg.i >= Len(arg.order_bcs)
       THEN /\ pc' = "rank"
            /\ arg' = [arg EXCEPT !.last = NoStep]
       ELSE /\ pc' = pc
            /\ arg' = [arg EXCEPT !.i = @ + 1, !.j = arg.i + 2,
                                  !.last = NoStep]
    /\ UNCHANGED ret
    /\ IdleUnchanged

\* The inner loop is over: break if something was merged, else the next bc;
\* the outer loop is over when no bc is left.
EndInnerLoop ==
    /\ pc = "scan"
    /\ arg.j > Len(arg.order_bcs)
    /\ IF arg.merged \/ arg.i >= Len(arg.order_bcs)
       THEN /\ pc' = "rank"
            /\ arg' = [arg EXCEPT !.last = NoStep]
       ELSE /\ pc' = pc
            /\ arg' = [arg EXCEPT !.i = @ + 1, !.j = arg.i + 2,
                                  !.last = NoStep]
    /\ UNCHANGED ret
    /\ IdleUnchanged

NextMergeSteps ==
    AssignAmbiguous \/ EndStep1 \/ Rank \/ Compare \/ EndInnerLoop

SpecMergeSteps == InitMergeSteps /\ [][NextMergeSteps]_vars

(***************************************************************************)
(* Properties.                                                             *)
(***************************************************************************)
\* Sum of f[x] over the finite set S, in exact arithmetic.
RECURSIVE RSum(_, _)
RSum(S, f) ==
    IF S = {} THEN RZero
    ELSE RAdd(f[CHOOSE x \in S : TRUE], RSum(S \ {CHOOSE x \in S : TRUE}, f))

RECURSIVE NSum(_, _)
NSum(S, f) ==
    IF S = {} THEN 0
    ELSE f[CHOOSE x \in S : TRUE] + NSum(S \ {CHOOSE x \in S : TRUE}, f)

\* Two characters agree: equal up to case, or one of them the wildcard.
SameLetter(c1, c2) ==
    \/ c1 = c2
    \/ {c1, c2} \in {{"a", "A"}, {"t", "T"}, {"n", "N"}}

CharsAgree(c1, c2) == SameLetter(c1, c2) \/ c1 \in {"N", "n"} \/ c2 \in {"N", "n"}

Mismatching(s1, s2) ==
    {i \in 1..Min(Len(s1), Len(s2)) : ~CharsAgree(s1[i], s2[i])}

\* C5: _match(s1, s2, mismatches) is true exactly when the number of compared
\* positions that disagree plus the difference of the lengths is at most
\* mismatches (that is, max(len) minus the matching positions), positions
\* agreeing when the characters are equal up to case or one is the wildcard;
\* the result is symmetric in s1 and s2; _match('AAN','AAT',0) and
\* _match('AAA','AAT',1) are true and _match('AAA','AAT',0) is false.
C5_MatchContract ==
    pc = "returned" =>
        /\ ret = (Cardinality(Mismatching(arg.s1, arg.s2))
                    + Max(Len(arg.s1), Len(arg.s2))
                    - Min(Len(arg.s1), Len(arg.s2)) <= arg.mismatches)
        /\ ret = _match(arg.s2, arg.s1, arg.mismatches)
        /\ (arg.s1 = <<"A", "A", "N">> /\ arg.s2 = <<"A", "A", "T">>
              /\ arg.mismatches = 0) => ret = TRUE
        /\ (arg.s1 = <<"A", "A", "A">> /\ arg.s2 = <<"A", "A", "T">>)
              => ret = (arg.mismatches >= 1)

\* C5 witness: the call _match('AAN', 'AAT', 0) has returned true.
C5_Witness ==
    /\ pc = "returned"
    /\ arg.s1 = <<"A", "A", "N">>
    /\ arg.s2 = <<"A", "A", "T">>
    /\ arg.mismatches = 0
    /\ ret = TRUE

\* C2: a second call of _merge_similar_randomers on the group that the first
\* call left changes neither the barcodes nor the hits of any barcode.
C2_MergeIdempotent == pc = "again" => arg.by_bc = arg.before

\* C2 witness: the second call has returned on a group in which the first call
\* merged barcodes and left a barcode with a wildcard beside another barcode.
C2_Witness ==
    /\ pc = "again"
    /\ DOMAIN arg.by_bc # DOMAIN arg.original
    /\ Cardinality(DOMAIN arg.by_bc) >= 2
    /\ \E bc \in DOMAIN arg.by_bc : CountN(bc) > 0

RLess(x, y) == x[1] * y[2] < y[1] * x[2]

\* The hits of a group, named by barcode and place in the barcode's list.
HitIds(by_bc) ==
    UNION {{<<bc, i>> : i \in 1..Len(by_bc[bc])} : bc \in DOMAIN by_bc}

HitAt(by_bc, id) == by_bc[id[1]][id[2]]

\* The hits with multiplicity <= cutoff.
Eligible(by_bc, cutoff) ==
    {id \in HitIds(by_bc) : HitAt(by_bc, id)[4] <= cutoff}

\* The eligible hits in the (barcode, second-start) sub-group of hit id.
SubGroupOf(by_bc, cutoff, id) ==
    {other \in Eligible(by_bc, cutoff) :
        /\ other[1] = id[1]
        /\ HitAt(by_bc, other)[5] = HitAt(by_bc, id)[5]}

\* D: the summed read length of the eligible hits of the sub-group of id.
Denominator(by_bc, cutoff, id) ==
    NSum(SubGroupOf(by_bc, cutoff, id),
         [other \in SubGroupOf(by_bc, cutoff, id) |-> HitAt(by_bc, other)[3]])

\* read_length / (multiplicity x D)
ReferenceWeight(by_bc, cutoff, id) ==
    Frac(HitAt(by_bc, id)[3],
         HitAt(by_bc, id)[4] * Denominator(by_bc, cutoff, id))

SelectedCoordinate(xlink_pos, hit, group_by) ==
    CASE group_by = "start" -> xlink_pos
      [] group_by = "middle" -> hit[1]
      [] group_by = "end" -> hit[2]

HitsAt(xlink_pos, by_bc, group_by, cutoff, p) ==
    {id \in Eligible(by_bc, cutoff) :
        SelectedCoordinate(xlink_pos, HitAt(by_bc, id), group_by) = p}

ReferenceAt(by_bc, cutoff, at) ==
    <<RSum(at, [id \in at |-> ReferenceWeight(by_bc, cutoff, id)]),
      Cardinality(at)>>

Reference(xlink_pos, by_bc, group_by, cutoff) ==
    [p \in {SelectedCoordinate(xlink_pos, HitAt(by_bc, id), group_by) :
                id \in Eligible(by_bc, cutoff)} |->
        ReferenceAt(by_bc, cutoff,
                    HitsAt(xlink_pos, by_bc, group_by, cutoff, p))]

\* C6: the mapping returned by _collapse equals the reference: at each output
\* coordinate the read count is the number of hits with multiplicity <=
\* cutoff selected to it and the weight the sum over them of read_length /
\* (multiplicity x D), D summing the read lengths of the hits with
\* multiplicity <= cutoff of the same (barcode, second-start) sub-group; hits
\* over the cutoff add nothing, so a lone hit of multiplicity 3 gives an empty
\* mapping below cutoff 3 and the weight 1/3 from cutoff 3 on.
C6_CollapseReference ==
    pc = "returned" =>
        /\ ret = Reference(arg.xlink_pos, arg.by_bc, arg.group_by, arg.multimax)
        /\ \A bc \in DOMAIN arg.by_bc :
              (DOMAIN arg.by_bc = {bc} /\ Len(arg.by_bc[bc]) = 1
                 /\ arg.by_bc[bc][1][4] = 3)
              => IF arg.multimax < 3 THEN ret = EmptyDict
                 ELSE \E p \in DOMAIN ret : ret = (p :> <<Frac(1, 3), 1>>)

\* C6 witness: _collapse has returned for a group in which a hit of
\* multiplicity 3 shares its sub-group with a uniquely mapped hit, under a
\* cutoff that counts both.
C6_Witness ==
    /\ pc = "returned"
    /\ arg.multimax >= 3
    /\ \E id \in HitIds(arg.by_bc) :
          /\ HitAt(arg.by_bc, id)[4] = 3
          /\ \E other \in SubGroupOf(arg.by_bc, arg.multimax, id) :
                HitAt(arg.by_bc, other)[4] = 1
    /\ \E p \in DOMAIN ret : RLess(ret[p][1], ROne)

\* What one sub-group adds to an empty mapping.
Contribution(ss_group) ==
    CollapseSsGroup(EmptyDict, arg.xlink_pos, ss_group,
                    GroupIndex(arg.group_by), arg.multimax)

TotalWeight(counts) == RSum(DOMAIN counts, [p \in DOMAIN counts |-> counts[p][1]])

TotalReads(counts) == NSum(DOMAIN counts, [p \in DOMAIN counts |-> counts[p][2]])

EligibleIn(ss_group) ==
    {i \in 1..Len(ss_group) : ss_group[i][4] <= arg.multimax}

SubGroups ==
    UNION {{SsGroup(arg.by_bc[bc], ss) : ss \in SecondStarts(arg.by_bc[bc])} :
              bc \in DOMAIN arg.by_bc}

SubGroupIds ==
    UNION {{<<bc, ss>> : ss \in SecondStarts(arg.by_bc[bc])} :
              bc \in DOMAIN arg.by_bc}

\* The weights of a sub-group sum to sum(L / (m x D)) over its eligible hits:
\* 1 when all of them are uniquely mapped, less than 1 otherwise.
SubGroupWeights(contribution, ss_group, eligible, d) ==
    /\ TotalReads(contribution) = Cardinality(eligible)
    /\ eligible = {} => contribution = EmptyDict
    /\ eligible # {} =>
          /\ TotalWeight(contribution) =
                RSum(eligible, [i \in eligible |->
                        Frac(ss_group[i][3], ss_group[i][4] * d)])
          /\ (\A i \in eligible : ss_group[i][4] = 1)
                => TotalWeight(contribution) = ROne
          /\ (\E i \in eligible : ss_group[i][4] > 1)
                => RLess(TotalWeight(contribution), ROne)

\* C1 (as the code has it): for every (barcode, second-start) sub-group and
\* cutoff, the sub-group adds as many reads as it has hits with multiplicity
\* <= cutoff; without such a hit it adds nothing; with such hits their
\* weights sum to the sum of read_length / (multiplicity x D), which is
\* exactly 1 when all those hits have multiplicity 1 (always so under cutoff
\* 1) and less than 1 as soon as one of them has a multiplicity above 1; the
\* weights of the returned mapping are the sum over the sub-groups.
C1_SubGroupWeightSum ==
    pc = "returned" =>
        /\ \A ss_group \in SubGroups :
              SubGroupWeights(Contribution(ss_group), ss_group,
                              EligibleIn(ss_group),
                              NSum(EligibleIn(ss_group),
                                   [i \in EligibleIn(ss_group) |->
                                        ss_group[i][3]]))
        /\ TotalWeight(ret) =
              RSum(SubGroupIds,
                   [id \in SubGroupIds |->
                        TotalWeight(Contribution(SsGroup(arg.by_bc[id[1]],
                                                         id[2])))])

\* C1 witness: _collapse has returned under cutoff 1 for a group with a
\* sub-group of two uniquely mapped hits of different lengths and a hit
\* mapped to several places.
C1_Witness ==
    /\ pc = "returned"
    /\ arg.multimax = 1
    /\ \E ss_group \in SubGroups :
          /\ Cardinality(EligibleIn(ss_group)) = 2
          /\ Len(ss_group) = 3
          /\ \E i, j \in EligibleIn(ss_group) : ss_group[i][3] # ss_group[j][3]
          /\ TotalWeight(Contribution(ss_group)) = ROne

\* C1 as stated: a sub-group with a hit of multiplicity <= cutoff has weights
\* summing to exactly 1 for any mix of multiplicities, and a sub-group
\* without such a hit adds nothing.
C1_AsStated ==
    pc = "returned" =>
        \A ss_group \in SubGroups :
            IF EligibleIn(ss_group) = {}
            THEN Contribution(ss_group) = EmptyDict
            ELSE TotalWeight(Contribution(ss_group)) = ROne

(***************************************************************************)
(* Properties of the runs.                                                 *)
(***************************************************************************)
\* The record passes the filters on the unmapped flag and the quality.
IsUsed(r) == ~r.is_unmapped /\ r.mapq >= cfg.mapq_th

LastRecord == bam[Len(bam)]

Consecutive(poss) == \A k \in 1..(Len(poss) - 1) : poss[k + 1] = poss[k] + 1

Gaps(poss) == {poss[k + 1] - poss[k] - 1 : k \in 1..(Len(poss) - 1)}

LargestGap(poss) ==
    IF Gaps(poss) = {} THEN 0
    ELSE CHOOSE g \in Gaps(poss) : \A h \in Gaps(poss) : h <= g

BarcodeOf(r) == _get_random_barcode(r.query_name, InitMetrics).bc

\* The hits stored where the hit of r belongs.
HitsUnder(r) ==
    Get(Get(Get(grouped, <<r.chrom, Strand(r)>>, EmptyDict),
            XlinkPos(r), EmptyDict),
        BarcodeOf(r), <<>>)

\* The hit of r with second-start 0.
LinearHit(r) ==
    <<r.positions[MiddleIndex(Len(r.positions), Strand(r))], EndPosOf(r),
      r.seq_len, r.NH, 0>>

SameBucket(r1, r2) ==
    /\ r1.chrom = r2.chrom
    /\ Strand(r1) = Strand(r2)
    /\ XlinkPos(r1) = XlinkPos(r2)

AllHits ==
    UNION {UNION {UNION {{grouped[cs][x][bc][i] :
                             i \in DOMAIN grouped[cs][x][bc]} :
                         bc \in DOMAIN grouped[cs][x]} :
                  x \in DOMAIN grouped[cs]} :
           cs \in DOMAIN grouped}

AllBarcodes ==
    UNION {UNION {DOMAIN grouped[cs][x] : x \in DOMAIN grouped[cs]} :
           cs \in DOMAIN grouped}

\* C3 as stated: a used read whose positions are consecutive integers is
\* processed without raising and its hit is stored with second-start 0, with
\* and without a segmentation.
C3_AsStated ==
    (/\ pc \in {"read", "error"}
     /\ bam # <<>>
     /\ IsUsed(LastRecord)
     /\ HasTagNH(LastRecord)
     /\ Consecutive(LastRecord.positions))
    => /\ pc = "read"
       /\ HitsUnder(LastRecord) # <<>>
       /\ HitsUnder(LastRecord)[Len(HitsUnder(LastRecord))][5] = 0

\* C8: without a segmentation, as long as no record has raised, the strange
\* reads are exactly the used reads whose largest gap is strictly greater
\* than holesize_th, in the order of the stream; every stored hit has
\* second-start 0; and every used read, strange or not, has its hit in the
\* grouping hierarchy under its bucket and barcode, as many times as the
\* stream holds such reads.
C8_NoSegmentation ==
    (cfg.annotation = {} /\ pc \in {"read", "detect"}) =>
        /\ strange = SelectSeq(bam, LAMBDA r :
                        IsUsed(r) /\ LargestGap(r.positions) > cfg.holesize_th)
        /\ \A hit \in AllHits : hit[5] = 0
        /\ \A k \in DOMAIN bam :
              IsUsed(bam[k]) =>
                  Cardinality({i \in DOMAIN HitsUnder(bam[k]) :
                                  HitsUnder(bam[k])[i] = LinearHit(bam[k])})
                  = Cardinality({j \in DOMAIN bam :
                                    /\ IsUsed(bam[j])
                                    /\ SameBucket(bam[j], bam[k])
                                    /\ BarcodeOf(bam[j]) = BarcodeOf(bam[k])
                                    /\ LinearHit(bam[j]) = LinearHit(bam[k])})

\* C8 witness: without a segmentation the last record read is a used read
\* with a gap above holesize_th; it is the last strange read and its hit is
\* stored with second-start 0.
C8_Witness ==
    /\ pc = "read"
    /\ cfg.annotation = {}
    /\ bam # <<>>
    /\ IsUsed(LastRecord)
    /\ LargestGap(LastRecord.positions) > cfg.holesize_th
    /\ strange # <<>>
    /\ strange[Len(strange)] = LastRecord
    /\ HitsUnder(LastRecord) # <<>>
    /\ HitsUnder(LastRecord)[Len(HitsUnder(LastRecord))] = LinearHit(LastRecord)

IsNucleotides(bc) ==
    \A i \in DOMAIN bc :
        bc[i] \in {"A", "C", "G", "T", "N", "a", "c", "g", "t", "n"}

\* C9 as stated: every barcode that is a key of the grouping hierarchy or of
\* the per-barcode frequency table is a string over {A,C,G,T,N}, whatever the
\* case, whichever naming convention produced it.
C9_AsStated ==
    pc \in {"read", "detect", "error"} =>
        /\ \A bc \in AllBarcodes : IsNucleotides(bc)
        /\ \A bc \in DOMAIN metrics.bc_cn : IsNucleotides(bc)

\* C10 (as the code has it): a record without NH that passes the filters on
\* the unmapped flag and the mapping quality aborts the run when it is
\* reached, so it is the last record read and no table is produced; a record
\* without NH that one of the filters drops is counted and skipped, so the
\* run has raised only if its last record is a used one that lacks NH or,
\* under a segmentation, covers a single position.
C10_MissingNHAbortsUsedRecord ==
    /\ \A k \in DOMAIN bam :
          (IsUsed(bam[k]) /\ ~HasTagNH(bam[k])) =>
              /\ pc = "error"
              /\ k = Len(bam)
              /\ unique = EmptyDict
              /\ multi = EmptyDict
    /\ pc = "error" =>
          /\ bam # <<>>
          /\ IsUsed(LastRecord)
          /\ \/ ~HasTagNH(LastRecord)
             \/ cfg.annotation # {} /\ Len(LastRecord.positions) = 1
    /\ metrics.all_recs = Len(bam)
    /\ metrics.used_recs = Cardinality({k \in DOMAIN bam : IsUsed(bam[k])})

\* C10 witness: an unmapped record without NH has been skipped and the used
\* record without NH after it has aborted the run.
C10_Witness ==
    /\ pc = "error"
    /\ Len(bam) = 2
    /\ bam[1].is_unmapped
    /\ ~HasTagNH(bam[1])
    /\ IsUsed(bam[2])
    /\ ~HasTagNH(bam[2])
    /\ unique = EmptyDict
    /\ multi = EmptyDict

\* C10 as stated: any record without NH, whatever its unmapped flag and
\* mapping quality, aborts the run when it is reached.
C10_AsStated ==
    (\E k \in DOMAIN bam : ~HasTagNH(bam[k])) =>
        /\ pc = "error"
        /\ unique = EmptyDict
        /\ multi = EmptyDict

\* The hits of the bucket are uniquely mapped and not split.
PlainBucket(by_bc) ==
    \A bc \in DOMAIN by_bc : \A i \in DOMAIN by_bc[bc] :
        by_bc[bc][i][4] = 1 /\ by_bc[bc][i][5] = 0

\* The used reads of the stream that fall into the bucket.
ReadsOf(cs, x) ==
    {k \in DOMAIN bam :
        IsUsed(bam[k]) /\ <<bam[k].chrom, Strand(bam[k])>> = cs
                       /\ XlinkPos(bam[k]) = x}

DistinctBarcodes(cs, x) == {BarcodeOf(bam[k]) : k \in ReadsOf(cs, x)}

\* C7: with group_by = start, for every bucket whose hits all have
\* multiplicity 1 and second-start 0, the unique-table weight at the
\* cross-link position is the number of barcodes left after merging, and the
\* read count the number of reads of the bucket; with mismatches = 0 and
\* wildcard-free barcodes of one length that is the number of distinct
\* barcodes of the reads.
C7_WeightIsBarcodeCount ==
    (pc = "done" /\ cfg.group_by = "start") =>
        \A cs \in DOMAIN grouped : \A x \in DOMAIN grouped[cs] :
            PlainBucket(grouped[cs][x]) =>
                /\ unique[cs][x] =
                      <<RInt(Cardinality(DOMAIN grouped[cs][x])),
                        Cardinality(ReadsOf(cs, x))>>
                /\ (/\ cfg.mismatches = 0
                    /\ \A b1, b2 \in DistinctBarcodes(cs, x) :
                          Len(b1) = Len(b2) /\ CountN(b1) = 0)
                   => unique[cs][x][1] =
                          RInt(Cardinality(DistinctBarcodes(cs, x)))

\* C7 witness: three uniquely mapped reads of one cross-link position, of
\* two read lengths and two barcodes, give the weight 2 with mismatches = 0.
C7_Witness ==
    /\ pc = "done"
    /\ cfg.group_by = "start"
    /\ cfg.mismatches = 0
    /\ \E cs \in DOMAIN grouped : \E x \in DOMAIN grouped[cs] :
          /\ PlainBucket(grouped[cs][x])
          /\ Cardinality(ReadsOf(cs, x)) = 3
          /\ Cardinality(DistinctBarcodes(cs, x)) = 2
          /\ \E j, k \in ReadsOf(cs, x) :
                /\ BarcodeOf(bam[j]) = BarcodeOf(bam[k])
                /\ bam[j].seq_len # bam[k].seq_len
          /\ unique[cs][x] = <<RInt(2), 3>>

\* A record as a sequence of numbers, different for different records.
RecordKey(r) ==
    <<IF r.is_unmapped THEN 1 ELSE 0, r.mapq, r.NH, r.seq_len,
      IF r.is_reverse THEN 1 ELSE 0, Len(r.positions)>>
    \o r.positions
    \o [i \in DOMAIN r.query_name |-> Code(r.query_name[i])]

RECURSIVE KeyLess(_, _)
KeyLess(k1, k2) ==
    IF k1 = <<>> THEN k2 # <<>>
    ELSE IF k2 = <<>> THEN FALSE
    ELSE IF Head(k1) # Head(k2) THEN Head(k1) < Head(k2)
    ELSE KeyLess(Tail(k1), Tail(k2))

Reorderings(recs) ==
    {[i \in DOMAIN recs |-> recs[f[i]]] :
        f \in {g \in [DOMAIN recs -> DOMAIN recs] :
                  \A i, j \in DOMAIN recs : i # j => g[i] # g[j]}}

\* The records of recs in ascending order of their keys.
Sorted(recs) ==
    CHOOSE p \in Reorderings(recs) :
        \A i, j \in DOMAIN p :
            i < j => ~KeyLess(RecordKey(p[j]), RecordKey(p[i]))

Observed ==
    Outcome(pc = "error", unique, multi, strange, metrics)

\* C4: a run that has ended leaves the same unique and inclusive tables
\* (coordinates, read counts, exact weights), the same strange reads and the
\* same metrics as the run on the sorted permutation of its records under the
\* same arguments, and raises if and only if that run raises; so any two
\* permutations of one multiset of records give the same result.
C4_OrderIndependent ==
    pc \in {"done", "error"} => Observed = Run(Sorted(bam), cfg)

\* C4 witness: a run has ended on three records that were not read in sorted
\* order, with barcodes merged at a cross-link position that holds reads of
\* different lengths and multiplicities.
C4_Witness ==
    /\ pc = "done"
    /\ Len(bam) = 3
    /\ bam # Sorted(bam)
    /\ \E cs \in DOMAIN grouped : \E x \in DOMAIN grouped[cs] :
          /\ Cardinality(DOMAIN grouped[cs][x])
                < Cardinality(DistinctBarcodes(cs, x))
          /\ \E j, k \in ReadsOf(cs, x) :
                bam[j].seq_len # bam[k].seq_len /\ bam[j].NH # bam[k].NH
    /\ \E cs \in DOMAIN multi : multi[cs] # unique[cs]

(***************************************************************************)
(* Properties of the two steps of _merge_similar_randomers.                *)
(***************************************************************************)
\* The pairs <<i, j>>, i before j, of matching barcodes of a ranking.
MatchingPairs(ranking, mismatches) ==
    {pair \in (DOMAIN ranking) \X (DOMAIN ranking) :
        /\ pair[1] < pair[2]
        /\ _match(ranking[pair[1]], ranking[pair[2]], mismatches)}

\* The first of the pairs in the order of the scan.
FirstPair(pairs) ==
    CHOOSE pair \in pairs :
        \A other \in pairs :
            \/ pair[1] < other[1]
            \/ pair[1] = other[1] /\ pair[2] <= other[2]

\* The group with the hits of barcode `from` moved to the end of those of `to`.
Moved(by_bc, to, from) ==
    [k \in DOMAIN by_bc \ {from} |->
        IF k = to THEN by_bc[to] \o by_bc[from] ELSE by_bc[k]]

\* The procedure of one merge at a time: rank the barcodes by descending hit
\* count (ties by descending barcode, as the code sorts), merge the first
\* matching pair, rank again; stop when no pair matches.
RECURSIVE OneMergeAtATime(_, _)

MergeFirstPair(by_bc, mismatches, ranking, pairs) ==
    IF pairs = {} THEN by_bc
    ELSE OneMergeAtATime(Moved(by_bc, ranking[FirstPair(pairs)[1]],
                               ranking[FirstPair(pairs)[2]]),
                         mismatches)

RankAndMerge(by_bc, mismatches, ranking) ==
    MergeFirstPair(by_bc, mismatches, ranking,
                   MatchingPairs(ranking, mismatches))

OneMergeAtATime(by_bc, mismatches) ==
    RankAndMerge(by_bc, mismatches, OrderBcs(by_bc, DOMAIN by_bc))

\* C11: step 2 leaves exactly the group (same barcodes, same hit list for
\* each) that merging one pair at a time with a new ranking after every
\* merge leaves: both on the group that step 1 hands over in the call and on
\* the drawn group taken as the input of step 2.
C11_Phase2AsOneMergeAtATime ==
    pc = "returned" =>
        /\ arg.by_bc =
              OneMergeAtATime(MergeStep1(arg.original, arg.mismatches),
                              arg.mismatches)
        /\ Phase2(arg.original, arg.mismatches) =
              OneMergeAtATime(arg.original, arg.mismatches)

\* C11 witness: the call has returned after a pass of step 2 in which one
\* barcode took the hits of two or more later barcodes before the next
\* ranking, and more than one barcode is left.
C11_Witness ==
    /\ pc = "returned"
    /\ Cardinality(DOMAIN Phase2Pass(MergeStep1(arg.original, arg.mismatches),
                                     arg.mismatches)) + 2
          <= Cardinality(DOMAIN MergeStep1(arg.original, arg.mismatches))
    /\ Cardinality(DOMAIN arg.by_bc) >= 2

\* The number of wildcards of a barcode.
Wildcards(bc) == Cardinality({k \in DOMAIN bc : bc[k] = "N"})

\* The accepted barcodes that match the barcode of the last step, as the step
\* found them.
MatchingAccepted ==
    {bc \in arg.last.accepted \cap DOMAIN arg.last.before :
        _match(bc, arg.last.bc2, arg.mismatches)}

\* The barcode is one of the matching ones and none of them has more hits.
BestOf(matching, into) ==
    /\ into \in matching
    /\ \A bc \in matching :
          Len(arg.last.before[bc]) <= Len(arg.last.before[into])

\* The last step moved all hits of `from` to the end of those of `to` and
\* changed nothing else.
MovedAll(to, from) ==
    /\ DOMAIN arg.by_bc = DOMAIN arg.last.before \ {from}
    /\ arg.by_bc[to] = arg.last.before[to] \o arg.last.before[from]
    /\ \A bc \in DOMAIN arg.by_bc \ {to} : arg.by_bc[bc] = arg.last.before[bc]

\* C12: step 1 takes the barcodes with wildcards, and only those, in
\* ascending order of their number of wildcards; each one is (a) moved with
\* all its hits to an accepted barcode that matches it and that no other
\* matching accepted barcode exceeds in hits at that moment, the accepted
\* barcodes being the wildcard-free ones and the barcodes accepted earlier,
\* or (b), when no accepted barcode matches, left as it is with its hits and
\* added to the accepted barcodes.
C12_Step1HighestFrequencyMatch ==
    /\ pc \in {"step1", "rank", "scan", "returned"} =>
          /\ \A k \in DOMAIN arg.handled : Wildcards(arg.handled[k]) > 0
          /\ \A k, l \in DOMAIN arg.handled :
                k < l => Wildcards(arg.handled[k]) <= Wildcards(arg.handled[l])
          /\ \A k \in DOMAIN arg.handled, l \in DOMAIN arg.ambig_bcs :
                Wildcards(arg.handled[k]) <= Wildcards(arg.ambig_bcs[l])
    /\ pc # "step1" =>
          {arg.handled[k] : k \in DOMAIN arg.handled}
              = {bc \in DOMAIN arg.original : Wildcards(bc) > 0}
    /\ arg.last.kind = "assigned" =>
          /\ arg.last.bc2 = arg.handled[Len(arg.handled)]
          /\ BestOf(MatchingAccepted, arg.last.into)
          /\ MovedAll(arg.last.into, arg.last.bc2)
          /\ arg.accepted_bcs = arg.last.accepted
    /\ arg.last.kind = "accepted" =>
          /\ arg.last.bc2 = arg.handled[Len(arg.handled)]
          /\ MatchingAccepted = {}
          /\ arg.by_bc = arg.last.before
          /\ arg.accepted_bcs = arg.last.accepted \cup {arg.last.bc2}

\* C12 witness: a barcode with wildcards has just been moved to a barcode
\* that was accepted earlier with its wildcards, while an accepted barcode
\* with fewer hits matched it as well.
C12_Witness ==
    /\ pc = "step1"
    /\ arg.last.kind = "assigned"
    /\ Wildcards(arg.last.into) > 0
    /\ \E bc \in MatchingAccepted :
          Len(arg.last.before[bc]) < Len(arg.last.before[arg.last.into])

\* The hits of a group, whatever their barcode.
HitValues(g) == UNION {{g[bc][k] : k \in DOMAIN g[bc]} : bc \in DOMAIN g}

\* How often the hit occurs in the group, ids naming the places of its hits.
Occurs(g, ids, hit) == Cardinality({id \in ids : HitAt(g, id) = hit})

SameCounts(g1, ids1, g2, ids2, hits) ==
    \A hit \in hits : Occurs(g1, ids1, hit) = Occurs(g2, ids2, hit)

\* The two groups hold the same hits the same number of times.
SameHits(g1, g2) ==
    /\ HitValues(g1) = HitValues(g2)
    /\ SameCounts(g1, HitIds(g1), g2, HitIds(g2), HitValues(g1))

\* All hits that the barcode had in g1 are under one barcode of g2.
KeptTogether(g1, bc, g2) ==
    \E key \in DOMAIN g2 :
        \A k \in DOMAIN g1[bc] : \E l \in DOMAIN g2[key] : g2[key][l] = g1[bc][k]

\* C13: after every step of _merge_similar_randomers and when it has
\* returned, no pop has raised for a key that is gone, the barcodes left are
\* barcodes of the original group, the hits over all barcodes are the
\* original hits, each as often as before, and the hits of each original
\* barcode are under one barcode; the group returned is the one the call as
\* a whole computes.
C13_HitsConserved ==
    /\ pc # "error"
    /\ DOMAIN arg.by_bc \subseteq DOMAIN arg.original
    /\ SameHits(arg.by_bc, arg.original)
    /\ \A bc \in DOMAIN arg.original :
          KeptTogether(arg.original, bc, arg.by_bc)
    /\ pc = "returned" =>
          arg.by_bc = _merge_similar_randomers(arg.original, arg.mismatches)

\* C13 witness: a merge of step 2 has just been made in a call whose step 1
\* moved the hits of a barcode with wildcards, and at least two barcodes of
\* the original group are gone.
C13_Witness ==
    /\ pc = "scan"
    /\ arg.last.kind = "merged"
    /\ \E k \in DOMAIN arg.handled :
          /\ arg.handled[k] \notin DOMAIN arg.by_bc
          /\ arg.handled[k] # arg.last.bc2
    /\ Cardinality(DOMAIN arg.by_bc) + 2 <= Cardinality(DOMAIN arg.original)

====
